---- MODULE Spec2Model ----
(***************************************************************************)
(* Model of mpds-distinct-phases: the MP <-> MPDS identifier matcher       *)
(* (scripts/mp_mpds_matcher.py) and the duplicate grouping scripts         *)
(* (scripts/helpers.py, scripts/dup_mp.py, scripts/dup_mpds.py).           *)
(*                                                                         *)
(* Five independent machines share the variable list; each has its own     *)
(* specification and leaves the variables of the others untouched:         *)
(*   MatchSpec  matcher_mp_mpds, lookup branch (mpds_id_path given)        *)
(*   GroupSpec  group_by_phase and fetch_duplicates                        *)
(*   DupSpec    find_duplicates_mp                                         *)
(*   SweepSpec  mpds_downloader, the partitioned fetch                     *)
(*   PipeSpec   id_mp_mpds_matcher with its on-disk snapshot artifacts     *)
(***************************************************************************)
EXTENDS Integers, Sequences, FiniteSets, TLC

VARIABLES
    \* ---- matcher_mp_mpds (lookup branch) ----
    data,               \* json.load(file): the reference rows, in file order
    formulae,           \* argument: formulae of the primary records
    sg,                 \* argument: space groups of the primary records (strings)
    mp_ids,             \* argument: ids of the primary records
    full_formula_dict,  \* (formula.full, spg)  -> phase id
    short_formula_dict, \* (formula.short, spg) -> phase id
    phase_ids,          \* the match entries, in order of insertion
    entry_src,          \* history: index i of the primary record behind each entry
    row_i,              \* position of `for row in data`
    i,                  \* position of `for i in range(len(formulae))`
    mpc,                \* "build" | "match" | "done"
    \* ---- group_by_phase / fetch_duplicates (dup_mpds.py, helpers.py) ----
    phase_data,         \* read_jsonl(input_path): the entries, in file order
    grouped,            \* defaultdict(set), as its items in insertion order
    duplicates,         \* the list fetch_duplicates returns
    entry_i,            \* position of `for entry in data`
    gpc,                \* "group" | "fetch" | "done"
    \* ---- find_duplicates_mp (dup_mp.py, helpers.py) ----
    df,                 \* pl.read_json(input_path): the rows, in file order
    grouped_mp,         \* the rows of the filtered aggregation
    dpc,                \* "read" | "done"
    \* ---- mpds_downloader (the partitioned fetch) ----
    mp_formulae,        \* argument `formulae`: each formula as its (element, amount) list
    unary,              \* argument `unary`
    mpds_ids,           \* the accumulated records
    el_i,               \* position of `for el in elements`
    cl_i,               \* position of `for cl in classes`
    more_then_quinary_cat, \* the keys of the supplementary pass
    cnt,                \* its counter
    csv_files,          \* the snapshots written so far: file name -> rows
    returned,           \* the value returned, <<>> until then
    requested,          \* history: the get_data requests issued, in order
    last_error,         \* history: the latest request raised
    any_error,          \* history: some request raised
    spc,                \* "classes" | "quinary" | "combos" | "done" | "aborted"
    \* ---- id_mp_mpds_matcher and its snapshot artifacts ----
    files,              \* state of each artifact on disk
    mpds_id_path,       \* argument: TRUE when a path is given
    mp_requests,        \* summary.search calls of the current run
    mpds_requests,      \* get_data calls of the current run
    ret,                \* what the run returned: "none" | "valid" | "badcols"
    snapshot_run,       \* history: a run has completed and no file was touched since
    after_snapshot,     \* history: the current run started with snapshot_run
    ppc                 \* "idle" | "mp_downloader" | "id_match" | "matcher" | "write"
                        \*   | "done" | "crashed"

matchVars == <<data, formulae, sg, mp_ids, full_formula_dict, short_formula_dict,
               phase_ids, entry_src, row_i, i, mpc>>

groupVars == <<phase_data, grouped, duplicates, entry_i, gpc>>

dupVars == <<df, grouped_mp, dpc>>

sweepVars == <<mp_formulae, unary, mpds_ids, el_i, cl_i, more_then_quinary_cat, cnt,
               csv_files, returned, requested, last_error, any_error, spc>>

pipeVars == <<files, mpds_id_path, mp_requests, mpds_requests, ret, snapshot_run,
              after_snapshot, ppc>>

vars == <<matchVars, groupVars, dupVars, sweepVars, pipeVars>>

\* What each machine leaves alone.
notMatchVars == <<groupVars, dupVars, sweepVars, pipeVars>>
notGroupVars == <<matchVars, dupVars, sweepVars, pipeVars>>
notDupVars == <<matchVars, groupVars, sweepVars, pipeVars>>
notSweepVars == <<matchVars, groupVars, dupVars, pipeVars>>
notPipeVars == <<matchVars, groupVars, dupVars, sweepVars>>

(***************************************************************************)
(* Generic helpers                                                         *)
(***************************************************************************)
SeqsUpTo(S, n) == UNION {[1..m -> S] : m \in 0..n}

InSeq(x, s) == \E n \in 1..Len(s) : s[n] = x

Range(s) == {s[n] : n \in 1..Len(s)}

EmptyDict == [k \in {} |-> <<>>]

(***************************************************************************)
(* matcher_mp_mpds, lookup branch                                          *)
(***************************************************************************)
\* Bounds of the enumerated inputs.
MaxRef == 2
MaxPrim == 2

\* A reference id is a '/'-separated path, modelled by its list of segments.
RefIdValues == {<<"R1">>, <<"phase", "R2">>}
FormulaValues == {"AB2", "full:AB2"}
SpgValues == {14, 15}
SgStrings == {"14"}
MpIdValues == {"P1", "P2"}

\* formula.short is the plain formula; formula.full is either the same string or a
\* decorated one.
RefFormulae == {[full |-> "AB2", short |-> "AB2"], [full |-> "full:AB2", short |-> "AB2"]}

RefRows == [id : RefIdValues, formula : RefFormulae, spg : SpgValues]

\* row["id"].split("/")[-1]
SplitLast(id) == id[Len(id)]

\* int(sg[i]) on the decimal strings the primary catalog delivers
ToInt(s) == CASE s = "14" -> 14

\* `if key not in d: d[key] = value`
SetIfAbsentLastWins(d, key, value) == (key :> value) @@ d
SetIfAbsent(d, key, value) == IF key \in DOMAIN d THEN d ELSE d @@ (key :> value)

\* One iteration of `for row in data` (lines 168-176).
BuildStep ==
    /\ mpc = "build"
    /\ row_i <= Len(data)
    /\ LET row == data[row_i]
           key_full == <<row.formula.full, row.spg>>
           key_short == <<row.formula.short, row.spg>>
       IN /\ full_formula_dict' =
                SetIfAbsent(full_formula_dict, key_full, SplitLast(row.id))
          /\ short_formula_dict' =
                SetIfAbsent(short_formula_dict, key_short, SplitLast(row.id))
    /\ row_i' = row_i + 1
    /\ UNCHANGED <<data, formulae, sg, mp_ids, phase_ids, entry_src, i, mpc, notMatchVars>>

\* `for row in data` is exhausted; the search loop starts.
BuildDone ==
    /\ mpc = "build"
    /\ row_i > Len(data)
    /\ mpc' = "match"
    /\ UNCHANGED <<data, formulae, sg, mp_ids, full_formula_dict, short_formula_dict,
                   phase_ids, entry_src, row_i, i, notMatchVars>>

\* The entry a key produces through a lookup dict.
Entry(d, key, n) == <<d[key], mp_ids[n], key[1], key[2]>>

\* The if / elif of lines 183-208: the new value of phase_ids.
SearchShortFirst(ids, n) ==
    LET key_full == <<formulae[n], ToInt(sg[n])>>
        key_short == <<formulae[n], ToInt(sg[n])>>
    IN IF /\ key_short \in DOMAIN short_formula_dict
          /\ ~InSeq(Entry(short_formula_dict, key_short, n), ids)
       THEN Append(ids, Entry(short_formula_dict, key_short, n))
       ELSE IF /\ key_full \in DOMAIN full_formula_dict
               /\ ~InSeq(Entry(full_formula_dict, key_full, n), ids)
            THEN Append(ids, Entry(full_formula_dict, key_full, n))
            ELSE ids
Search(ids, n) ==
    LET key_full == <<formulae[n], ToInt(sg[n])>>
        key_short == <<formulae[n], ToInt(sg[n])>>
    IN IF /\ key_full \in DOMAIN full_formula_dict
          /\ ~InSeq(Entry(full_formula_dict, key_full, n), ids)
       THEN Append(ids, Entry(full_formula_dict, key_full, n))
       ELSE IF /\ key_short \in DOMAIN short_formula_dict
               /\ ~InSeq(Entry(short_formula_dict, key_short, n), ids)
            THEN Append(ids, Entry(short_formula_dict, key_short, n))
            ELSE ids

\* One iteration of `for i in range(len(formulae))` (lines 179-208).
MatchStep ==
    /\ mpc = "match"
    /\ i <= Len(formulae)
    /\ phase_ids' = Search(phase_ids, i)
    /\ entry_src' = IF phase_ids' = phase_ids THEN entry_src ELSE Append(entry_src, i)
    /\ i' = i + 1
    /\ UNCHANGED <<data, formulae, sg, mp_ids, full_formula_dict, short_formula_dict,
                   row_i, mpc, notMatchVars>>

\* The loop is exhausted: the data frame of phase_ids is returned (lines 210-213).
MatchReturn ==
    /\ mpc = "match"
    /\ i > Len(formulae)
    /\ mpc' = "done"
    /\ UNCHANGED <<data, formulae, sg, mp_ids, full_formula_dict, short_formula_dict,
                   phase_ids, entry_src, row_i, i, notMatchVars>>

\* The variables of a machine that the specification at hand does not run.
MatchIdle ==
    /\ data = <<>> /\ formulae = <<>> /\ sg = <<>> /\ mp_ids = <<>>
    /\ full_formula_dict = EmptyDict /\ short_formula_dict = EmptyDict
    /\ phase_ids = <<>> /\ entry_src = <<>> /\ row_i = 1 /\ i = 1 /\ mpc = "idle"

GroupIdle ==
    /\ phase_data = <<>> /\ grouped = <<>> /\ duplicates = <<>>
    /\ entry_i = 1 /\ gpc = "idle"

DupIdle == df = <<>> /\ grouped_mp = {} /\ dpc = "idle"

SweepIdle ==
    /\ mp_formulae = <<>> /\ unary = {} /\ mpds_ids = <<>> /\ el_i = 1 /\ cl_i = 1
    /\ more_then_quinary_cat = <<>> /\ cnt = 0 /\ csv_files = EmptyDict
    /\ returned = <<>> /\ requested = <<>> /\ last_error = FALSE /\ any_error = FALSE
    /\ spc = "idle"

ArtifactNames == {"all_id_mp.json", "mpds_IDs_ready.csv", "id_match.json"}

PipeIdle ==
    /\ files = [f \in ArtifactNames |-> "absent"] /\ mpds_id_path = FALSE
    /\ mp_requests = 0 /\ mpds_requests = 0 /\ ret = "none"
    /\ snapshot_run = FALSE /\ after_snapshot = FALSE /\ ppc = "off"

MatchInit ==
    /\ GroupIdle /\ DupIdle /\ SweepIdle /\ PipeIdle
    /\ data \in SeqsUpTo(RefRows, MaxRef)
    /\ \E n \in 0..MaxPrim :
         /\ formulae \in [1..n -> FormulaValues]
         /\ sg \in [1..n -> SgStrings]
         /\ mp_ids \in [1..n -> MpIdValues]
    /\ full_formula_dict = EmptyDict
    /\ short_formula_dict = EmptyDict
    /\ phase_ids = <<>>
    /\ entry_src = <<>>
    /\ row_i = 1
    /\ i = 1
    /\ mpc = "build"

MatchNext ==
    \/ BuildStep
    \/ BuildDone
    \/ MatchStep
    \/ MatchReturn

MatchSpec == MatchInit /\ [][MatchNext]_vars

\* The join branch (lines 229-242): the reference table and the primary table are
\* inner-joined on (formula, symmetry); a row per matching pair of input rows.
mp_df == [n \in 1..Len(formulae) |->
            [ID_mp |-> mp_ids[n], formula |-> formulae[n], symmetry |-> ToInt(sg[n])]]

InnerJoin(left, right) ==
    {p \in (1..Len(left)) \X (1..Len(right)) :
        /\ left[p[1]].formula = right[p[2]].formula
        /\ left[p[1]].symmetry = right[p[2]].symmetry}

(***************************************************************************)
(* Claims about the lookup matcher                                         *)
(***************************************************************************)
FullKey(row) == <<row.formula.full, row.spg>>
ShortKey(row) == <<row.formula.short, row.spg>>

HasFull(key) == \E j \in 1..Len(data) : FullKey(data[j]) = key
HasShort(key) == \E j \in 1..Len(data) : ShortKey(data[j]) = key

\* The row of `data` that carries `key` first, in file order.
FirstFull(key) ==
    CHOOSE j \in 1..Len(data) :
        /\ FullKey(data[j]) = key
        /\ \A m \in 1..(j - 1) : FullKey(data[m]) # key
FirstShort(key) ==
    CHOOSE j \in 1..Len(data) :
        /\ ShortKey(data[j]) = key
        /\ \A m \in 1..(j - 1) : ShortKey(data[m]) # key

PrimKey(n) == <<formulae[n], ToInt(sg[n])>>
FullEntry(n) ==
    <<SplitLast(data[FirstFull(PrimKey(n))].id), mp_ids[n], formulae[n], ToInt(sg[n])>>
ShortEntry(n) ==
    <<SplitLast(data[FirstShort(PrimKey(n))].id), mp_ids[n], formulae[n], ToInt(sg[n])>>

\* C1: the entries never contain two entries with the same
\* (reference id, primary id) pair.
C1_NoDuplicatePair ==
    \A m, n \in 1..Len(phase_ids) :
        (phase_ids[m][1] = phase_ids[n][1] /\ phase_ids[m][2] = phase_ids[n][2]) => m = n

\* The reference side of the relational formulation: a reference record offers its
\* full and its short formula as join keys (one table row per distinct key).
RECURSIVE RefTable(_)
RefTable(rows) ==
    IF rows = <<>> THEN <<>>
    ELSE LET r == Head(rows)
             f == [phase_id |-> SplitLast(r.id), formula |-> r.formula.full,
                   symmetry |-> r.spg]
             s == [phase_id |-> SplitLast(r.id), formula |-> r.formula.short,
                   symmetry |-> r.spg]
         IN (IF f = s THEN <<f>> ELSE <<f, s>>) \o RefTable(Tail(rows))

JoinCount == Cardinality(InnerJoin(RefTable(data), mp_df))

\* No two reference records share a key, full or short.
NoSharedRefKey ==
    \A a, b \in 1..Len(data) :
        a # b => {FullKey(data[a]), ShortKey(data[a])}
                   \cap {FullKey(data[b]), ShortKey(data[b])} = {}

\* C2: the lookup matcher returns at most as many entries as the inner join has
\* rows, and exactly as many when no two reference records share a key.
C2_LookupVersusJoin ==
    mpc = "done" =>
        /\ Len(phase_ids) <= JoinCount
        /\ NoSharedRefKey => Len(phase_ids) = JoinCount

\* C8: each lookup maps a key to the id of the first reference record, in input
\* order, that carries the key; later records with the key do not change it; and
\* the reference id of every entry is the id of the first record carrying the
\* entry's key as its full or as its short key.
C8_FirstOccurrenceWins ==
    /\ DOMAIN full_formula_dict = {FullKey(data[j]) : j \in 1..(row_i - 1)}
    /\ DOMAIN short_formula_dict = {ShortKey(data[j]) : j \in 1..(row_i - 1)}
    /\ \A key \in DOMAIN full_formula_dict :
          full_formula_dict[key] = SplitLast(data[FirstFull(key)].id)
    /\ \A key \in DOMAIN short_formula_dict :
          short_formula_dict[key] = SplitLast(data[FirstShort(key)].id)
    /\ \A n \in 1..Len(phase_ids) :
          LET e == phase_ids[n]
              key == <<e[3], e[4]>>
          IN \/ HasFull(key) /\ e[1] = SplitLast(data[FirstFull(key)].id)
             \/ HasShort(key) /\ e[1] = SplitLast(data[FirstShort(key)].id)

\* Two reference records with different ids share a full key or share a short key,
\* and an entry was emitted for that key with the id of the first of them.
C8_Witness ==
    /\ mpc = "done"
    /\ \E a, b \in 1..Len(data) :
          /\ a < b
          /\ SplitLast(data[a].id) # SplitLast(data[b].id)
          /\ \/ /\ FullKey(data[a]) = FullKey(data[b])
                /\ FirstFull(FullKey(data[a])) = a
                /\ \E n \in 1..Len(phase_ids) :
                      /\ <<phase_ids[n][3], phase_ids[n][4]>> = FullKey(data[a])
                      /\ phase_ids[n][1] = SplitLast(data[a].id)
             \/ /\ ShortKey(data[a]) = ShortKey(data[b])
                /\ FirstShort(ShortKey(data[a])) = a
                /\ ~HasFull(ShortKey(data[a]))
                /\ \E n \in 1..Len(phase_ids) :
                      /\ <<phase_ids[n][3], phase_ids[n][4]>> = ShortKey(data[a])
                      /\ phase_ids[n][1] = SplitLast(data[a].id)

ExampleData == <<[id |-> <<"R1">>, formula |-> [full |-> "full:AB2", short |-> "AB2"],
                  spg |-> 14]>>

IsExample ==
    /\ data = ExampleData
    /\ formulae = <<"AB2">>
    /\ sg = <<"14">>
    /\ mp_ids = <<"P1">>

\* C9: for every primary record processed, the full key is tried first and its
\* entry recorded when found and not yet present; otherwise the short key is tried
\* under the same check; a record adds at most one entry and one matching neither
\* key adds none; the entries stand in primary input order; and the reference
\* {R1, "full:AB2", "AB2", 14} with the primary {P1, "AB2", 14} gives exactly
\* (R1, P1, "AB2", 14).
C9_FullThenShort ==
    mpc \in {"match", "done"} =>
        /\ Len(entry_src) = Len(phase_ids)
        /\ \A n \in 1..Len(entry_src) : entry_src[n] \in 1..(i - 1)
        /\ \A m, n \in 1..Len(entry_src) : m < n => entry_src[m] < entry_src[n]
        /\ \A n \in 1..Len(phase_ids) :
              LET j == entry_src[n]
                  before == SubSeq(phase_ids, 1, n - 1)
              IN IF HasFull(PrimKey(j)) /\ ~InSeq(FullEntry(j), before)
                 THEN phase_ids[n] = FullEntry(j)
                 ELSE /\ HasShort(PrimKey(j))
                      /\ ~InSeq(ShortEntry(j), before)
                      /\ phase_ids[n] = ShortEntry(j)
        /\ \A j \in 1..(i - 1) :
              ~InSeq(j, entry_src) =>
                LET before_j == Cardinality({n \in 1..Len(entry_src) : entry_src[n] < j})
                    before == SubSeq(phase_ids, 1, before_j)
                IN /\ HasFull(PrimKey(j)) => InSeq(FullEntry(j), before)
                   /\ HasShort(PrimKey(j)) => InSeq(ShortEntry(j), before)
        /\ (IsExample /\ mpc = "done") => phase_ids = << <<"R1", "P1", "AB2", 14>> >>

\* A run is over in which one primary record got its entry through the full key
\* and a later one, whose full-key entry was already present, got a different
\* entry through the short key.
C9_Witness ==
    /\ mpc = "done"
    /\ \E m, n \in 1..Len(phase_ids) :
          /\ m < n
          /\ HasFull(PrimKey(entry_src[m])) /\ phase_ids[m] = FullEntry(entry_src[m])
          /\ HasFull(PrimKey(entry_src[n])) /\ phase_ids[n] # FullEntry(entry_src[n])
          /\ phase_ids[n] = ShortEntry(entry_src[n])

(***************************************************************************)
(* group_by_phase and fetch_duplicates                                     *)
(***************************************************************************)
MaxEntries == 3

PhaseValues == {"X", "Y"}
PhaseIdValues == {1, 2, 3}

\* An entry is a JSON object; the keys 'phase' and 'phase_id' may be missing.
EntryValues ==
    [phase : PhaseValues, phase_id : PhaseIdValues]
        \cup {[phase |-> "X"], [phase_id |-> 1]}

\* grouped[phase].add(phase_id) on a defaultdict(set)
AddToGroup(g, phase, id) ==
    IF \E n \in 1..Len(g) : g[n].phase = phase
    THEN [n \in 1..Len(g) |->
            IF g[n].phase = phase THEN [g[n] EXCEPT !.phase_ids = @ \cup {id}] ELSE g[n]]
    ELSE Append(g, [phase |-> phase, phase_ids |-> {id}])

\* One iteration of `for entry in data` in group_by_phase.
GroupStep ==
    /\ gpc = "group"
    /\ entry_i <= Len(phase_data)
    /\ LET entry == phase_data[entry_i]
       IN IF "phase" \in DOMAIN entry /\ "phase_id" \in DOMAIN entry
          THEN grouped' = AddToGroup(grouped, entry.phase, entry.phase_id)
          ELSE grouped' = grouped
    /\ entry_i' = entry_i + 1
    /\ UNCHANGED <<phase_data, duplicates, gpc, notGroupVars>>

\* `return grouped`
GroupReturn ==
    /\ gpc = "group"
    /\ entry_i > Len(phase_data)
    /\ gpc' = "fetch"
    /\ UNCHANGED <<phase_data, grouped, duplicates, entry_i, notGroupVars>>

\* list(phase_ids): the members of the set, each once, in an order the set decides.
ListsOf(S) == {l \in [1..Cardinality(S) -> S] : {l[n] : n \in 1..Cardinality(S)} = S}

\* The `if len(phase_ids) > 1` of the comprehension.
IsDuplicateNonEmpty(phase_ids_of) == Cardinality(phase_ids_of) > 0
IsDuplicate(phase_ids_of) == Cardinality(phase_ids_of) > 1

\* The outputs of the comprehension over grouped_data.items().
RECURSIVE DuplicateLists(_)
DuplicateLists(g) ==
    IF g = <<>> THEN {<<>>}
    ELSE IF IsDuplicate(Head(g).phase_ids)
         THEN {<<[phase |-> Head(g).phase, phase_ids |-> l]>> \o rest :
                  l \in ListsOf(Head(g).phase_ids), rest \in DuplicateLists(Tail(g))}
         ELSE DuplicateLists(Tail(g))

fetch_duplicates ==
    /\ gpc = "fetch"
    /\ duplicates' \in DuplicateLists(grouped)
    /\ gpc' = "done"
    /\ UNCHANGED <<phase_data, grouped, entry_i, notGroupVars>>

GroupInit ==
    /\ MatchIdle /\ DupIdle /\ SweepIdle /\ PipeIdle
    /\ phase_data \in SeqsUpTo(EntryValues, MaxEntries)
    /\ grouped = <<>>
    /\ duplicates = <<>>
    /\ entry_i = 1
    /\ gpc = "group"

GroupNext ==
    \/ GroupStep
    \/ GroupReturn
    \/ fetch_duplicates

GroupSpec == GroupInit /\ [][GroupNext]_vars

\* The distinct phase_id values a phase occurs with, among the entries that have
\* both fields.
IdsOfPhase(p) ==
    {phase_data[n].phase_id :
        n \in {m \in 1..Len(phase_data) :
                  /\ "phase" \in DOMAIN phase_data[m]
                  /\ "phase_id" \in DOMAIN phase_data[m]
                  /\ phase_data[m].phase = p}}

ExampleEntries == <<[phase |-> "X", phase_id |-> 1], [phase |-> "X", phase_id |-> 2],
                    [phase |-> "Y", phase_id |-> 3]>>

\* C3: a group is emitted for a phase if and only if the phase occurs with at
\* least two distinct phase_id values among the entries that have both fields; the
\* group lists exactly those ids, each once; X:1, X:2, Y:3 give only X -> {1, 2}.
C3_GroupIffTwoDistinctIds ==
    gpc = "done" =>
        /\ \A p \in PhaseValues :
              (\E n \in 1..Len(duplicates) : duplicates[n].phase = p)
                  <=> Cardinality(IdsOfPhase(p)) >= 2
        /\ \A m, n \in 1..Len(duplicates) :
              duplicates[m].phase = duplicates[n].phase => m = n
        /\ \A n \in 1..Len(duplicates) :
              LET l == duplicates[n].phase_ids
              IN /\ {l[k] : k \in 1..Len(l)} = IdsOfPhase(duplicates[n].phase)
                 /\ Len(l) = Cardinality(IdsOfPhase(duplicates[n].phase))
        /\ phase_data = ExampleEntries =>
              /\ Len(duplicates) = 1
              /\ duplicates[1].phase = "X"
              /\ duplicates[1].phase_ids \in {<<1, 2>>, <<2, 1>>}

\* The grouping is over for a phase that occurs three times with two distinct ids:
\* its group is emitted and lists the repeated id once.
C3_Witness ==
    /\ gpc = "done"
    /\ \E n \in 1..Len(duplicates) :
          /\ Len(duplicates[n].phase_ids) = 2
          /\ Cardinality({m \in 1..Len(phase_data) :
                /\ DOMAIN phase_data[m] = {"phase", "phase_id"}
                /\ phase_data[m].phase = duplicates[n].phase}) = 3

(***************************************************************************)
(* find_duplicates_mp                                                      *)
(***************************************************************************)
MaxDf == 3

DfRows == [formula : {"A", "B"}, symmetry : {225}, pearson : {"cF8", "cF4"},
           identifier : {"mp-1", "mp-2"}]

GroupKey(row) == <<row.formula, row.symmetry, row.pearson>>

\* pl.col("identifier") aggregated per group: the identifiers of the group's rows,
\* one per row, in row order.
RECURSIVE Identifiers(_, _)
Identifiers(rows, key) ==
    IF rows = <<>> THEN <<>>
    ELSE (IF GroupKey(Head(rows)) = key THEN <<Head(rows).identifier>> ELSE <<>>)
             \o Identifiers(Tail(rows), key)

\* group_by(...).agg(...).filter(list.len() > 1).with_columns(list.len() as count)
find_duplicates_mp ==
    /\ dpc = "read"
    /\ grouped_mp' =
          {[formula |-> key[1], symmetry |-> key[2], pearson |-> key[3],
            identifiers |-> Identifiers(df, key), count |-> Len(Identifiers(df, key))] :
              key \in {k \in {GroupKey(df[n]) : n \in 1..Len(df)} :
                         Len(Identifiers(df, k)) > 1}}
    /\ dpc' = "done"
    /\ UNCHANGED <<df, notDupVars>>

DupInit ==
    /\ MatchIdle /\ GroupIdle /\ SweepIdle /\ PipeIdle
    /\ df \in SeqsUpTo(DfRows, MaxDf)
    /\ grouped_mp = {}
    /\ dpc = "read"

DupNext == find_duplicates_mp

DupSpec == DupInit /\ [][DupNext]_vars

\* C4: an emitted group has more than one distinct identifier and lists each
\* identifier exactly once; a key whose rows all carry one identifier is not emitted.
C4_GroupNeedsDistinctIds ==
    dpc = "done" =>
        \A g \in grouped_mp :
            /\ Cardinality({g.identifiers[n] : n \in 1..Len(g.identifiers)}) > 1
            /\ \A m, n \in 1..Len(g.identifiers) :
                  g.identifiers[m] = g.identifiers[n] => m = n

(***************************************************************************)
(* mpds_downloader: the partitioned fetch                                  *)
(***************************************************************************)
\* Bounds: the length of the element table swept and of the primary formula list.
NumElements == 2
MaxSweepFormulae == 2

\* periodictable.elements, cut to its first NumElements symbols.
PeriodicTable == <<"n", "H", "He", "Li">>
elements == SubSeq(PeriodicTable, 1, NumElements)
classes == <<"unary", "binary", "ternary", "quaternary", "quinary">>

\* The order of Python's sorted() on the element symbols in use.
SymbolOrder == <<"B", "C", "H", "He", "Li", "N", "O", "n">>

\* sorted(symbols) of distinct symbols (dict keys, set members): the symbols of S
\* in that order.
sorted(S) == SelectSeq(SymbolOrder, LAMBDA sym : sym \in S)

\* Composition(f).get_el_amt_dict().keys()
Keys(f) == {f[n][1] : n \in 1..Len(f)}

\* The primary formulae of the model: H2, LiH and three six-element formulae, two
\* of which agree on their first two symbols in sorted order.
SweepFormulaValues ==
    {<< <<"H", 2>> >>,
     << <<"Li", 1>>, <<"H", 1>> >>,
     << <<"Li", 1>>, <<"B", 1>>, <<"C", 1>>, <<"H", 1>>, <<"N", 1>>, <<"O", 1>> >>,
     << <<"He", 1>>, <<"B", 1>>, <<"C", 1>>, <<"H", 1>>, <<"N", 1>>, <<"O", 1>> >>,
     << <<"C", 1>>, <<"H", 1>>, <<"He", 1>>, <<"Li", 1>>, <<"N", 1>>, <<"O", 1>> >>}

\* define_unary(formulae)
define_unary(fs) ==
    {sorted(Keys(fs[n]))[1] : n \in {m \in 1..Len(fs) : Cardinality(Keys(fs[m])) = 1}}

\* get_composition(formulae, num_el_from)
RECURSIVE Compositions(_, _)
Compositions(fs, comp) ==
    IF fs = <<>> THEN comp
    ELSE LET temp_comp == sorted(Keys(Head(fs)))
         IN Compositions(Tail(fs),
                         IF InSeq(temp_comp, comp) THEN comp ELSE Append(comp, temp_comp))

num_el_from == 6

get_composition(fs) ==
    SelectSeq(Compositions(fs, <<>>), LAMBDA c : Len(c) >= num_el_from)

\* i[:2]
FirstTwo(c) == SubSeq(c, 1, IF Len(c) < 2 THEN Len(c) ELSE 2)

\* [i[:2] for i in get_composition(formulae, 6)], then
\* set(tuple(sorted(sublist)) for sublist in more_then_quinary)
MoreThenQuinarySet(fs) ==
    {sorted(Range(FirstTwo(c))) : c \in Range(get_composition(fs))}

\* "-".join(el)
RECURSIVE JoinDash(_)
JoinDash(el) ==
    IF Len(el) <= 1 THEN el ELSE <<Head(el), "-">> \o JoinDash(Tail(el))

\* The rows a request may return: [phase_id, formula, symmetry, ...]; the first two
\* rows differ only after their third field.
Row1 == <<1, "LiH", 225, "a">>
Row1b == <<1, "LiH", 225, "b">>
Row2 == <<2, "H2", 194, "a">>
Answers == {<<Row1>>, <<Row1b, Row2>>}

\* `for row in ans: if row[:3] not in mpds_ids: mpds_ids.append(row[:3])`
RECURSIVE Accumulate(_, _)
Accumulate(ids, ans) ==
    IF ans = <<>> THEN ids
    ELSE Accumulate(IF InSeq(SubSeq(Head(ans), 1, 3), ids)
                    THEN ids
                    ELSE Append(ids, SubSeq(Head(ans), 1, 3)),
                    Tail(ans))

\* `classes == "unary"` (line 84): a list compared with a string, never equal.
ClassesEqualsUnary == FALSE

\* `except Exception as e: print(e)`: the stage the sweep is in after a request
\* raised.
ExceptAborts(stage) == "aborted"
Except(stage) == stage

\* One iteration of `for cl in classes` (lines 83-94).
ClassRequest ==
    /\ spc = "classes"
    /\ cl_i <= Len(classes)
    /\ LET el == elements[el_i]
           cl == classes[cl_i]
       IN IF ClassesEqualsUnary /\ el \notin unary
          THEN UNCHANGED <<mpds_ids, requested, last_error, any_error, spc>>
          ELSE /\ requested' = Append(requested, [elements |-> el, classes |-> cl])
               /\ \/ \E ans \in Answers :
                       /\ mpds_ids' = Accumulate(mpds_ids, ans)
                       /\ last_error' = FALSE
                       /\ UNCHANGED <<any_error, spc>>
                  \/ /\ last_error' = TRUE
                     /\ any_error' = TRUE
                     /\ spc' = Except(spc)
                     /\ UNCHANGED mpds_ids
    /\ cl_i' = cl_i + 1
    /\ UNCHANGED <<mp_formulae, unary, el_i, more_then_quinary_cat, cnt, csv_files,
                   returned, notSweepVars>>

FlushEvery == 15

\* The tail of one iteration of `for el in elements` (lines 95-98).
ElementFlush ==
    /\ spc = "classes"
    /\ cl_i > Len(classes)
    /\ csv_files' = IF (el_i - 1) % FlushEvery = 0
                    THEN (<<"mpds_IDs_it_", el_i - 1, ".csv">> :> mpds_ids) @@ csv_files
                    ELSE csv_files
    /\ el_i' = el_i + 1
    /\ cl_i' = 1
    /\ spc' = IF el_i = Len(elements) THEN "quinary" ELSE "classes"
    /\ UNCHANGED <<mp_formulae, unary, mpds_ids, more_then_quinary_cat, cnt, returned,
                   requested, last_error, any_error, notSweepVars>>

\* Lines 100-111: the snapshot after the class sweep, and the keys of the
\* supplementary pass, listed in the order the set yields them.
WriteQuinary ==
    /\ spc = "quinary"
    /\ csv_files' = (<<"mpds_IDs_quinary.csv">> :> mpds_ids) @@ csv_files
    /\ \E keys \in {MoreThenQuinarySet(mp_formulae)} :
          \E cat \in ListsOf(keys) : more_then_quinary_cat' = cat
    /\ cnt' = 0
    /\ spc' = "combos"
    /\ UNCHANGED <<mp_formulae, unary, mpds_ids, el_i, cl_i, returned, requested,
                   last_error, any_error, notSweepVars>>

\* One iteration of `for el in more_then_quinary_cat` (lines 112-122).
ComboRequest ==
    /\ spc = "combos"
    /\ cnt < Len(more_then_quinary_cat)
    /\ cnt' = cnt + 1
    /\ requested' = Append(requested,
                           [elements |-> JoinDash(more_then_quinary_cat[cnt + 1])])
    /\ \/ \E ans \in Answers :
            /\ mpds_ids' = Accumulate(mpds_ids, ans)
            /\ last_error' = FALSE
            /\ UNCHANGED <<any_error, spc>>
       \/ /\ last_error' = TRUE
          /\ any_error' = TRUE
          /\ spc' = Except(spc)
          /\ UNCHANGED mpds_ids
    /\ UNCHANGED <<mp_formulae, unary, el_i, cl_i, more_then_quinary_cat, csv_files,
                   returned, notSweepVars>>

\* Lines 123-126: the final snapshot and the return.
WriteReady ==
    /\ spc = "combos"
    /\ cnt = Len(more_then_quinary_cat)
    /\ csv_files' = (<<"./mpds_IDs_ready.csv">> :> mpds_ids) @@ csv_files
    /\ returned' = mpds_ids
    /\ spc' = "done"
    /\ UNCHANGED <<mp_formulae, unary, mpds_ids, el_i, cl_i, more_then_quinary_cat, cnt,
                   requested, last_error, any_error, notSweepVars>>

SweepInit ==
    /\ MatchIdle /\ GroupIdle /\ DupIdle /\ PipeIdle
    /\ mp_formulae \in SeqsUpTo(SweepFormulaValues, MaxSweepFormulae)
    /\ unary = define_unary(mp_formulae)
    /\ mpds_ids = <<>>
    /\ el_i = 1
    /\ cl_i = 1
    /\ more_then_quinary_cat = <<>>
    /\ cnt = 0
    /\ csv_files = EmptyDict
    /\ returned = <<>>
    /\ requested = <<>>
    /\ last_error = FALSE
    /\ any_error = FALSE
    /\ spc = "classes"

SweepNext ==
    \/ ClassRequest
    \/ ElementFlush
    \/ WriteQuinary
    \/ ComboRequest
    \/ WriteReady

\* Every request returns or raises, and the function is single-threaded blocking
\* code: a step that can be taken is taken.
SweepSpec == SweepInit /\ [][SweepNext]_vars /\ WF_vars(SweepNext)

IsPrefix(s, t) == Len(s) <= Len(t) /\ SubSeq(t, 1, Len(s)) = s

\* The requests of a complete sweep: every (element, class) pair, element by
\* element, then every key of the supplementary pass.
ClassPlan ==
    [k \in 1..(Len(elements) * Len(classes)) |->
        [elements |-> elements[((k - 1) \div Len(classes)) + 1],
         classes |-> classes[((k - 1) % Len(classes)) + 1]]]
ComboPlan ==
    [k \in 1..Len(more_then_quinary_cat) |->
        [elements |-> JoinDash(more_then_quinary_cat[k])]]

C7_Safe ==
    /\ spc # "aborted"
    /\ IsPrefix(requested, ClassPlan \o ComboPlan)
    /\ spc = "done" =>
          /\ requested = ClassPlan \o ComboPlan
          /\ {more_then_quinary_cat[k] : k \in 1..Len(more_then_quinary_cat)}
                = MoreThenQuinarySet(mp_formulae)
          /\ Len(more_then_quinary_cat) = Cardinality(MoreThenQuinarySet(mp_formulae))
          /\ <<"./mpds_IDs_ready.csv">> \in DOMAIN csv_files
          /\ csv_files[<<"./mpds_IDs_ready.csv">>] = mpds_ids
          /\ returned = mpds_ids

C7_Step ==
    /\ IsPrefix(mpds_ids, mpds_ids')
    /\ (requested' # requested /\ last_error') => (mpds_ids' = mpds_ids /\ spc' = spc)

\* C7: a request that raises never aborts the sweep: whatever requests fail, every
\* (element, class) pair and every key of the supplementary pass is requested, a
\* failed request adds no record, the records accumulated before it are kept, and
\* the run reaches its end, where the final snapshot holds exactly the records
\* returned.
C7_ErrorNeverAborts == []C7_Safe /\ [][C7_Step]_vars /\ <>(spc = "done")

\* The sweep is over, with records in hand, after a request that raised and a later
\* one that returned.
C7_Witness ==
    /\ spc = "done"
    /\ any_error
    /\ ~last_error
    /\ mpds_ids # <<>>
    /\ more_then_quinary_cat # <<>>

\* C10: the unary class is requested for an element only if the element is in the
\* unary set; the other four classes are requested for every element.
C10_UnaryOnlyForUnarySet ==
    /\ \A n \in 1..Len(requested) :
          ("classes" \in DOMAIN requested[n] /\ requested[n].classes = "unary")
              => requested[n].elements \in unary
    /\ spc \in {"combos", "done"} =>
          \A e \in 1..Len(elements) : \A c \in 2..Len(classes) :
              InSeq([elements |-> elements[e], classes |-> classes[c]], requested)

(***************************************************************************)
(* id_mp_mpds_matcher and the snapshot artifacts                           *)
(***************************************************************************)
\* An artifact is absent, well-formed ("valid"), present but not parsable
\* ("unparsable"), or parsable but without the expected columns ("badcols").
FileStates == {"absent", "valid", "unparsable", "badcols"}

\* pl.read_json / pl.read_csv return a frame for any parsable file and raise otherwise.
Readable(st) == st \in {"valid", "badcols"}

\* The number of get_data calls of one mpds_downloader run whose supplementary
\* pass has k keys.
SweepRequests(k) == Len(elements) * Len(classes) + k

\* Between runs, a file is removed, truncated or replaced.
Tamper ==
    /\ ppc \in {"idle", "done", "crashed"}
    /\ \E f \in ArtifactNames : \E st \in FileStates :
          /\ files[f] # st
          /\ files' = [files EXCEPT ![f] = st]
    /\ snapshot_run' = FALSE
    /\ UNCHANGED <<mpds_id_path, mp_requests, mpds_requests, ret, after_snapshot, ppc,
                   notPipeVars>>

\* id_mp_mpds_matcher is called.
Start ==
    /\ ppc \in {"idle", "done", "crashed"}
    /\ ppc' = "mp_downloader"
    /\ mp_requests' = 0
    /\ mpds_requests' = 0
    /\ ret' = "none"
    /\ after_snapshot' = snapshot_run
    /\ UNCHANGED <<files, mpds_id_path, snapshot_run, notPipeVars>>

\* dfrm.write_json(mp_path + "all_id_mp.json")
WriteAllIdMpSkipped(fs) == fs
WriteAllIdMp(fs) == [fs EXCEPT !["all_id_mp.json"] = "valid"]

\* mp_downloader (lines 253-275): the artifact is read, or the catalog is searched
\* and the artifact written; a search that raises ends the run.
mp_downloader ==
    /\ ppc = "mp_downloader"
    /\ IF Readable(files["all_id_mp.json"])
       THEN /\ ppc' = "id_match"
            /\ UNCHANGED <<files, mp_requests>>
       ELSE /\ mp_requests' = mp_requests + 1
            /\ \/ /\ files' = WriteAllIdMp(files)
                  /\ ppc' = "id_match"
               \/ /\ ppc' = "crashed"
                  /\ UNCHANGED files
    /\ UNCHANGED <<mpds_id_path, mpds_requests, ret, snapshot_run, after_snapshot,
                   notPipeVars>>

\* Lines 305-310: id_match.json is read and returned; when the read raises,
\* all_id_mp.json is read and its columns taken (a missing column raises).
ReadIdMatch ==
    /\ ppc = "id_match"
    /\ IF Readable(files["id_match.json"])
       THEN /\ ret' = files["id_match.json"]
            /\ ppc' = "done"
            /\ snapshot_run' = TRUE
       ELSE /\ ppc' = IF files["all_id_mp.json"] = "valid" THEN "matcher" ELSE "crashed"
            /\ UNCHANGED <<ret, snapshot_run>>
    /\ UNCHANGED <<files, mpds_id_path, mp_requests, mpds_requests, after_snapshot,
                   notPipeVars>>

\* matcher_mp_mpds as called on line 311: the lookup branch, or the join branch
\* with mpds_IDs_ready.csv read (lines 217-219) or fetched by mpds_downloader and
\* written (lines 220-227); the join raises on a frame without its key columns.
matcher_mp_mpds ==
    /\ ppc = "matcher"
    /\ IF mpds_id_path
       THEN /\ ppc' = "write"
            /\ UNCHANGED <<files, mpds_requests>>
       ELSE IF Readable(files["mpds_IDs_ready.csv"])
            THEN /\ ppc' = IF files["mpds_IDs_ready.csv"] = "valid"
                           THEN "write" ELSE "crashed"
                 /\ UNCHANGED <<files, mpds_requests>>
            ELSE /\ \E k \in 0..MaxSweepFormulae :
                       mpds_requests' = mpds_requests + SweepRequests(k)
                 /\ files' = [files EXCEPT !["mpds_IDs_ready.csv"] = "valid"]
                 /\ ppc' = "write"
    /\ UNCHANGED <<mpds_id_path, mp_requests, ret, snapshot_run, after_snapshot,
                   notPipeVars>>

\* Lines 318-319: the match is written and returned.
WriteIdMatch ==
    /\ ppc = "write"
    /\ files' = [files EXCEPT !["id_match.json"] = "valid"]
    /\ ret' = "valid"
    /\ ppc' = "done"
    /\ snapshot_run' = TRUE
    /\ UNCHANGED <<mpds_id_path, mp_requests, mpds_requests, after_snapshot,
                   notPipeVars>>

PipeInit ==
    /\ MatchIdle /\ GroupIdle /\ DupIdle /\ SweepIdle
    /\ files = [f \in ArtifactNames |-> "absent"]
    /\ mpds_id_path \in BOOLEAN
    /\ mp_requests = 0
    /\ mpds_requests = 0
    /\ ret = "none"
    /\ snapshot_run = FALSE
    /\ after_snapshot = FALSE
    /\ ppc = "idle"

PipeNext ==
    \/ Tamper
    \/ Start
    \/ mp_downloader
    \/ ReadIdMatch
    \/ matcher_mp_mpds
    \/ WriteIdMatch

PipeSpec == PipeInit /\ [][PipeNext]_vars

\* C5: once a run has completed, every later run with the same arguments (the
\* artifacts left as they are) issues no request: no catalog search, no get_data.
C5_NoRequestAfterSnapshot ==
    after_snapshot => (mp_requests = 0 /\ mpds_requests = 0)

\* A run that fetched both catalogs and wrote the three artifacts was followed by
\* a run that has returned the stored match.
C5_Witness ==
    /\ after_snapshot
    /\ ppc = "done"
    /\ ret = "valid"
    /\ ~mpds_id_path
    /\ \A f \in ArtifactNames : files[f] = "valid"

\* C6: an artifact that is readable but lacks the expected columns is treated like
\* an absent one: it is regenerated, and its content is neither returned nor used.
C6_MalformedIsRegenerated ==
    /\ ppc \in {"id_match", "matcher", "write"} => files["all_id_mp.json"] = "valid"
    /\ ret # "badcols"
    /\ ppc = "done" =>
          /\ files["all_id_mp.json"] = "valid"
          /\ files["id_match.json"] = "valid"
    /\ (ppc = "crashed" /\ mp_requests = 0) =>
          \A f \in ArtifactNames : files[f] # "badcols"

====
